---- MODULE Spec2Model ----
(***************************************************************************)
(* The symbol table of src/stab.c: two ordered indexes over the same       *)
(* symbols, st->sym (name -> address) and st->addr ((address, name) keys), *)
(* kept by stab_set / stab_del / stab_clear and read by stab_get /         *)
(* stab_nearest / stab_enum, allocated by stab_new and released by         *)
(* stab_destroy.                                                           *)
(*                                                                         *)
(* A C string is modelled by the sequence of its bytes before the          *)
(* terminating NUL; every byte is an unsigned value 1..255.  A B+tree      *)
(* (btree.h) is modelled by the set of the records it holds; the btree_*   *)
(* operators follow the Ordered Index contract of the design document and  *)
(* the way stab.c tests their results.                                     *)
(***************************************************************************)
EXTENDS Integers, Sequences, FiniteSets, TLC

\* sizeof(key->name): char name[64] in struct sym_key and struct addr_key
NameSize == 64

\* ---- bounds of the model ------------------------------------------------
\* addresses passed to stab_set and stab_nearest range over 0..MaxAddr
MaxAddr == 2
\* number of stab_set calls that may fail between two stab_clear calls
MaxFail == 1
\* the short caller buffer tried by stab_nearest (besides a NameSize one)
SmallBuf == 2
\* the visitor of stab_enum fails on its k-th call, k in 1..MaxFailAt, or never
MaxFailAt == 2

RECURSIVE Rep(_, _)
Rep(b, n) == IF n = 0 THEN <<>> ELSE Append(Rep(b, n - 1), b)

\* the strings given as names: the one byte 0xff, NameSize - 1 bytes 0xff
\* (the longest name that is kept whole) and NameSize bytes 0xff (too long,
\* kept as the second); the first is a prefix of the others
Texts == { <<255>>, Rep(255, NameSize - 1), Rep(255, NameSize) }

\* the values given as addresses (int values >= 0, unchanged as address_t)
Addrs == 0..MaxAddr

Queries == Addrs

\* the sizes of the buffer given to stab_nearest (max_len)
MaxLens == {SmallBuf, NameSize}

FailAts == 0..MaxFailAt

\* what stab_new allocates: the struct stab and its two B+trees
Objects == {"st", "sym", "addr"}

\* the allocation of stab_new that fails, "ok" when none does
NewFails == {"ok", "st", "sym", "addr"}

VARIABLES
  st,      \* the table the callers hold: "st", or "NULL" when there is none
  live,    \* the allocations not yet released: a subset of Objects
  sym,     \* st->sym : set of [key |-> name, data |-> address]
  addr,    \* st->addr: set of keys [addr |-> address, name |-> name]
  last,    \* the last call: its arguments, its return value and its outputs
  nfail,   \* stab_set calls that returned -1 since creation / last stab_clear
  shadow   \* what the callers were told: name |-> address of every symbol
           \* whose last successful stab_set was not followed by a
           \* successful stab_del or a stab_clear

vars == <<st, live, sym, addr, last, nfail, shadow>>

\* ---- C library ----------------------------------------------------------

\* the byte at 0-based offset i - 1 of a C string: the NUL once past its end
ByteAt(s, i) == IF i <= Len(s) THEN s[i] ELSE 0

\* strcmp: the bytes are compared as unsigned char up to the first difference
\* (at the latest the NUL of the shorter string); no byte past it is read
strcmp(l, r) ==
  LET m == IF Len(l) < Len(r) THEN Len(l) ELSE Len(r)
  IN  IF l = r THEN 0
      ELSE IF SubSeq(l, 1, m) = SubSeq(r, 1, m)
        THEN (IF ByteAt(l, m + 1) < ByteAt(r, m + 1) THEN -1 ELSE 1)
      ELSE LET d == CHOOSE i \in 1..m :
                      /\ l[i] # r[i]
                      /\ SubSeq(l, 1, i - 1) = SubSeq(r, 1, i - 1)
           IN  IF l[d] < r[d] THEN -1 ELSE 1

\* strncpy(dst, src, n); dst[n - 1] = 0 : the string left in dst
strncpy_term(src, n) ==
  SubSeq(src, 1, IF Len(src) < n - 1 THEN Len(src) ELSE n - 1)

\* malloc: the object and the allocations with it, NULL and no change when
\* it fails
malloc(heap, obj, fails) ==
  IF fails THEN [p |-> "NULL", heap |-> heap]
  ELSE [p |-> obj, heap |-> heap \cup {obj}]

\* free: the allocations without the object
free(heap, p) == heap \ {p}

\* ---- keys ---------------------------------------------------------------

sym_key_compare(left, right) == strcmp(left, right)

\* sym_key_init without the length check
sym_key_init_whole(text) == text

sym_key_init(text) ==
  LET len0 == Len(text)
      len == IF len0 >= NameSize THEN NameSize - 1 ELSE len0
  IN  SubSeq(text, 1, len)

\* a byte read as a signed char
SignedByte(b) == IF b >= 128 THEN b - 256 ELSE b

\* addr_key_compare with the names compared as signed char, the NameSize
\* bytes of both buffers (padded with NUL)
addr_key_compare_signed(kl, kr) ==
  IF kl.addr < kr.addr THEN -1
  ELSE IF kl.addr > kr.addr THEN 1
  ELSE LET diff == {i \in 1..NameSize : ByteAt(kl.name, i) # ByteAt(kr.name, i)}
       IN  IF diff = {} THEN 0
           ELSE LET d == CHOOSE i \in diff : \A j \in diff : i <= j
                IN  IF SignedByte(ByteAt(kl.name, d)) < SignedByte(ByteAt(kr.name, d))
                      THEN -1 ELSE 1

addr_key_compare(kl, kr) ==
  IF kl.addr < kr.addr THEN -1
  ELSE IF kl.addr > kr.addr THEN 1
  ELSE strcmp(kl.name, kr.name)

\* addr_key_init without the length check
addr_key_init_whole(a, text) == [addr |-> a, name |-> text]

addr_key_init(a, text) ==
  LET len0 == Len(text)
      len == IF len0 >= NameSize THEN NameSize - 1 ELSE len0
  IN  [addr |-> a, name |-> SubSeq(text, 1, len)]

\* the name field of the probe of stab_nearest: NameSize bytes 0xff, no NUL
probe_name == Rep(255, NameSize)

\* the probe with its name field left zeroed
nearest_probe_zero(a) == [addr |-> a, name |-> <<>>]

\* the probe of stab_nearest
nearest_probe(a) == [addr |-> a, name |-> probe_name]

\* ---- the ordered index (B+tree) ------------------------------------------

\* btree_get on st->sym: 0 and the data when the key is there, else non-zero
btree_get(bt, key) ==
  IF \E e \in bt : sym_key_compare(e.key, key) = 0
    THEN [ret |-> 0,
          data |-> (CHOOSE e \in bt : sym_key_compare(e.key, key) = 0).data]
    ELSE [ret |-> 1, data |-> -1]

\* btree_put on st->sym: insert, or overwrite the data of an existing key;
\* < 0 and no change when it fails (fails: the index cannot take the record)
btree_put_sym(bt, key, data, fails) ==
  IF fails THEN [ret |-> -1, bt |-> bt]
  ELSE [ret |-> IF \E e \in bt : sym_key_compare(e.key, key) = 0 THEN 1 ELSE 0,
        bt  |-> {e \in bt : sym_key_compare(e.key, key) # 0}
                  \cup {[key |-> key, data |-> data]}]

\* btree_put on st->addr (keys only, no data)
btree_put_addr(bt, key, fails) ==
  IF fails THEN [ret |-> -1, bt |-> bt]
  ELSE [ret |-> IF \E e \in bt : addr_key_compare(e, key) = 0 THEN 1 ELSE 0,
        bt  |-> {e \in bt : addr_key_compare(e, key) # 0} \cup {key}]

\* btree_delete on st->sym: 0 when the key was there, 1 when it was not
btree_delete_sym(bt, key) ==
  [ret |-> IF \E e \in bt : sym_key_compare(e.key, key) = 0 THEN 0 ELSE 1,
   bt  |-> {e \in bt : sym_key_compare(e.key, key) # 0}]

\* btree_delete on st->addr
btree_delete_addr(bt, key) ==
  [ret |-> IF \E e \in bt : addr_key_compare(e, key) = 0 THEN 0 ELSE 1,
   bt  |-> {e \in bt : addr_key_compare(e, key) # 0}]

\* btree_clear: the index with no record, still allocated
btree_clear(bt) == {}

\* btree_alloc: a new index (with no record), NULL when it fails
btree_alloc(heap, obj, fails) ==
  IF fails THEN [p |-> "NULL", heap |-> heap]
  ELSE [p |-> obj, heap |-> heap \cup {obj}]

\* btree_free: the index is released with all its records
btree_free(heap, p) == heap \ {p}

\* an index operation that changes a B+tree, with the value it returned
Op(f, on, ret) == [f |-> f, on |-> on, ret |-> ret]

\* btree_select(bt, key, BTREE_LE, ...): the last record <= key
btree_select_LE(bt, key) ==
  LET le == {e \in bt : addr_key_compare(e, key) <= 0}
  IN  IF le = {} THEN [ret |-> 1, key |-> key]
      ELSE [ret |-> 0,
            key |-> CHOOSE e \in le : \A f \in le : addr_key_compare(f, e) <= 0]

\* btree_select(bt, NULL, BTREE_FIRST, ...): the first record, cursor on it
btree_select_FIRST(bt) ==
  IF bt = {} THEN [ret |-> 1, key |-> nearest_probe(0)]
  ELSE [ret |-> 0,
        key |-> CHOOSE e \in bt : \A f \in bt : addr_key_compare(e, f) <= 0]

\* btree_select(bt, NULL, BTREE_NEXT, ...): the record after the cursor
btree_select_NEXT(bt, cursor) ==
  LET gt == {e \in bt : addr_key_compare(e, cursor) > 0}
  IN  IF gt = {} THEN [ret |-> 1, key |-> cursor]
      ELSE [ret |-> 0,
            key |-> CHOOSE e \in gt : \A f \in gt : addr_key_compare(e, f) <= 0]

\* ---- symbol table methods, as functions of the table --------------------

\* stab_set without the deletion of the old reverse mapping
set_stale_kept(st_sym, st_addr, skey) == [addr |-> st_addr, ops |-> <<>>]

\* stab_set, first half: the address index once the reverse mapping of an
\* old address of the name is deleted (the result of btree_delete is unused),
\* and the index operation made
set_stale(st_sym, st_addr, skey) ==
  LET old == btree_get(st_sym, skey)
  IN  IF old.ret = 0
        THEN LET d == btree_delete_addr(st_addr, addr_key_init(old.data, skey))
             IN  [addr |-> d.bt, ops |-> <<Op("delete", "addr", d.ret)>>]
        ELSE [addr |-> st_addr, ops |-> <<>>]

\* stab_set with the result of the second btree_put unchecked
set_puts_unchecked(st_sym, a1, skey, akey, value, put) ==
  LET p1 == btree_put_addr(a1, akey, put = "addr")
  IN  IF p1.ret < 0
        THEN [sym |-> st_sym, addr |-> p1.bt, ret |-> -1,
              ops |-> <<Op("put", "addr", p1.ret)>>]
        ELSE LET p2 == btree_put_sym(st_sym, skey, value, put = "sym")
             IN  [sym |-> p2.bt, addr |-> p1.bt, ret |-> 0,
                  ops |-> <<Op("put", "addr", p1.ret), Op("put", "sym", p2.ret)>>]

\* stab_set with the two btree_put calls the other way round
set_puts_symfirst(st_sym, a1, skey, akey, value, put) ==
  LET p2 == btree_put_sym(st_sym, skey, value, put = "sym")
  IN  IF p2.ret < 0
        THEN [sym |-> p2.bt, addr |-> a1, ret |-> -1,
              ops |-> <<Op("put", "sym", p2.ret)>>]
        ELSE LET p1 == btree_put_addr(a1, akey, put = "addr")
             IN  [sym |-> p2.bt, addr |-> p1.bt,
                  ret |-> IF p1.ret < 0 THEN -1 ELSE 0,
                  ops |-> <<Op("put", "sym", p2.ret), Op("put", "addr", p1.ret)>>]

\* stab_set that takes the new reverse mapping back out of the Address Index
\* when the second btree_put fails
set_puts_rollback(st_sym, a1, skey, akey, value, put) ==
  LET p1 == btree_put_addr(a1, akey, put = "addr")
  IN  IF p1.ret < 0
        THEN [sym |-> st_sym, addr |-> p1.bt, ret |-> -1,
              ops |-> <<Op("put", "addr", p1.ret)>>]
        ELSE LET p2 == btree_put_sym(st_sym, skey, value, put = "sym")
             IN  IF p2.ret < 0
                   THEN LET d == btree_delete_addr(p1.bt, akey)
                        IN  [sym |-> p2.bt, addr |-> d.bt, ret |-> -1,
                             ops |-> <<Op("put", "addr", p1.ret),
                                       Op("put", "sym", p2.ret),
                                       Op("delete", "addr", d.ret)>>]
                   ELSE [sym |-> p2.bt, addr |-> p1.bt, ret |-> 0,
                         ops |-> <<Op("put", "addr", p1.ret),
                                   Op("put", "sym", p2.ret)>>]

\* stab_set, second half: the two btree_put calls and the return value.
\* put tells which btree_put fails: "addr" (the first), "sym" (the second,
\* reached only when the first did not fail) or neither ("ok").  The second
\* btree_put is not made when the first fails (||).
set_puts(st_sym, a1, skey, akey, value, put) ==
  LET p1 == btree_put_addr(a1, akey, put = "addr")
  IN  IF p1.ret < 0
        THEN [sym |-> st_sym, addr |-> p1.bt, ret |-> -1,
              ops |-> <<Op("put", "addr", p1.ret)>>]
        ELSE LET p2 == btree_put_sym(st_sym, skey, value, put = "sym")
             IN  [sym |-> p2.bt, addr |-> p1.bt,
                  ret |-> IF p2.ret < 0 THEN -1 ELSE 0,
                  ops |-> <<Op("put", "addr", p1.ret), Op("put", "sym", p2.ret)>>]

\* stab_set: the table it leaves, its return value and the index operations
\* it made, in order
set_result(st_sym, st_addr, name, value, put) ==
  LET skey == sym_key_init(name)
      s    == set_stale(st_sym, st_addr, skey)
      p    == set_puts(st_sym, s.addr, skey, addr_key_init(value, name), value, put)
  IN  [sym |-> p.sym, addr |-> p.addr, ret |-> p.ret, ops |-> s.ops \o p.ops]

\* stab_get with the key taken from the name as given, sym_key_init skipped
get_result_raw(st_sym, name) ==
  LET g == btree_get(st_sym, name)
  IN  IF g.ret # 0 THEN [ret |-> -1, value |-> -1]
      ELSE [ret |-> 0, value |-> g.data]

\* stab_get: return value and *value (untouched, -1 here, when not found)
get_result(st_sym, name) ==
  LET g == btree_get(st_sym, sym_key_init(name))
  IN  IF g.ret # 0 THEN [ret |-> -1, value |-> -1]
      ELSE [ret |-> 0, value |-> g.data]

\* stab_del that deletes from the Name Index only
del_result_symonly(st_sym, st_addr, name) ==
  LET skey == sym_key_init(name)
      g    == btree_get(st_sym, skey)
  IN  IF g.ret # 0
        THEN [sym |-> st_sym, addr |-> st_addr, ret |-> -1, ops |-> <<>>]
        ELSE LET d1 == btree_delete_sym(st_sym, skey)
             IN  [sym |-> d1.bt, addr |-> st_addr, ret |-> 0,
                  ops |-> <<Op("delete", "sym", d1.ret)>>]

\* stab_del without the test of the result of btree_get: the address is then
\* whatever the variable held (0 here)
del_result_nocheck(st_sym, st_addr, name) ==
  LET skey == sym_key_init(name)
      g    == btree_get(st_sym, skey)
      d1   == btree_delete_sym(st_sym, skey)
      d2   == btree_delete_addr(st_addr,
                addr_key_init(IF g.ret = 0 THEN g.data ELSE 0, name))
  IN  [sym |-> d1.bt, addr |-> d2.bt, ret |-> 0,
       ops |-> <<Op("delete", "sym", d1.ret), Op("delete", "addr", d2.ret)>>]

\* stab_del: the table it leaves, its return value and the index operations
\* it made, in order (the results of both btree_delete calls are unused)
del_result(st_sym, st_addr, name) ==
  LET skey == sym_key_init(name)
      g    == btree_get(st_sym, skey)
  IN  IF g.ret # 0
        THEN [sym |-> st_sym, addr |-> st_addr, ret |-> -1, ops |-> <<>>]
        ELSE LET d1 == btree_delete_sym(st_sym, skey)
                 d2 == btree_delete_addr(st_addr, addr_key_init(g.data, name))
             IN  [sym |-> d1.bt, addr |-> d2.bt, ret |-> 0,
                  ops |-> <<Op("delete", "sym", d1.ret),
                            Op("delete", "addr", d2.ret)>>]

\* stab_nearest with the offset taken the wrong way round
nearest_result_negoff(st_addr, a, max_len) ==
  LET s == btree_select_LE(st_addr, nearest_probe(a))
  IN  IF s.ret = 0
        THEN [ret |-> 0, name |-> strncpy_term(s.key.name, max_len),
              offset |-> s.key.addr - a]
        ELSE [ret |-> -1, name |-> <<>>, offset |-> -1]

\* stab_nearest: return value, ret_name and *ret_offset (untouched when -1).
\* max_len >= 1: the size of the caller's buffer
nearest_result(st_addr, a, max_len) ==
  LET s == btree_select_LE(st_addr, nearest_probe(a))
  IN  IF s.ret = 0
        THEN [ret |-> 0, name |-> strncpy_term(s.key.name, max_len),
              offset |-> a - s.key.addr]
        ELSE [ret |-> -1, name |-> <<>>, offset |-> -1]

RECURSIVE enum_loop(_, _, _, _)

\* the loop of stab_enum leaving after the first visitor call
enum_loop_first(st_addr, s, calls, failAt) ==
  IF s.ret # 0 THEN [ret |-> 0, calls |-> calls]
  ELSE LET made == Append(calls, [name |-> s.key.name, addr |-> s.key.addr])
       IN  IF Len(made) = failAt THEN [ret |-> -1, calls |-> made]
           ELSE [ret |-> 0, calls |-> made]

\* the loop of stab_enum with the result of the visitor tested after the step
\* to the next record, which is visited when there is one
enum_loop_late(st_addr, s, calls, failAt) ==
  IF s.ret # 0 THEN [ret |-> 0, calls |-> calls]
  ELSE LET made == Append(calls, [name |-> s.key.name, addr |-> s.key.addr])
           n    == btree_select_NEXT(st_addr, s.key)
       IN  IF Len(made) # failAt THEN enum_loop(st_addr, n, made, failAt)
           ELSE IF n.ret # 0 THEN [ret |-> -1, calls |-> made]
           ELSE [ret |-> -1,
                 calls |-> Append(made, [name |-> n.key.name, addr |-> n.key.addr])]

\* the loop of stab_enum: s is the last btree_select result, calls the list
\* of visitor calls made so far; the visitor returns < 0 on call number
\* failAt (never when failAt = 0)
enum_loop(st_addr, s, calls, failAt) ==
  IF s.ret # 0 THEN [ret |-> 0, calls |-> calls]
  ELSE LET made == Append(calls, [name |-> s.key.name, addr |-> s.key.addr])
       IN  IF Len(made) = failAt THEN [ret |-> -1, calls |-> made]
           ELSE enum_loop(st_addr, btree_select_NEXT(st_addr, s.key), made, failAt)

\* stab_enum: return value and the visitor calls made, in order
enum_result(st_addr, failAt) ==
  enum_loop(st_addr, btree_select_FIRST(st_addr), <<>>, failAt)

\* stab_clear that clears the Name Index only
clear_result_symonly(st_sym, st_addr) ==
  [sym |-> btree_clear(st_sym), addr |-> st_addr]

\* stab_clear: the table it leaves
clear_result(st_sym, st_addr) ==
  [sym |-> btree_clear(st_sym), addr |-> btree_clear(st_addr)]

\* stab_new that does not free the Name Index when the Address Index cannot
\* be allocated
new_result_leak(heap, fail) ==
  LET m == malloc(heap, "st", fail = "st")
  IN  IF m.p = "NULL" THEN [st |-> "NULL", live |-> m.heap]
      ELSE LET s == btree_alloc(m.heap, "sym", fail = "sym")
           IN  IF s.p = "NULL" THEN [st |-> "NULL", live |-> free(s.heap, m.p)]
               ELSE LET a == btree_alloc(s.heap, "addr", fail = "addr")
                    IN  IF a.p = "NULL"
                          THEN [st |-> "NULL", live |-> free(a.heap, m.p)]
                          ELSE [st |-> m.p, live |-> a.heap]

\* stab_new: the pointer it returns and the allocations it leaves; heap: the
\* allocations there were; fail: the allocation that fails, "ok" when none
new_result(heap, fail) ==
  LET m == malloc(heap, "st", fail = "st")
  IN  IF m.p = "NULL" THEN [st |-> "NULL", live |-> m.heap]
      ELSE LET s == btree_alloc(m.heap, "sym", fail = "sym")
           IN  IF s.p = "NULL" THEN [st |-> "NULL", live |-> free(s.heap, m.p)]
               ELSE LET a == btree_alloc(s.heap, "addr", fail = "addr")
                    IN  IF a.p = "NULL"
                          THEN [st |-> "NULL",
                                live |-> free(btree_free(a.heap, s.p), m.p)]
                          ELSE [st |-> m.p, live |-> a.heap]

\* stab_destroy: the allocations it leaves
destroy_result(heap) == free(btree_free(btree_free(heap, "sym"), "addr"), "st")

\* ---- the calls ------------------------------------------------------------

\* the form in which a name is kept: its first NameSize - 1 bytes
Stored(t) == IF Len(t) <= NameSize - 1 THEN t ELSE SubSeq(t, 1, NameSize - 1)

\* a call as its caller sees it, and what it did to the indexes.  put: which
\* btree_put of a stab_set, or which allocation of a stab_new, failed; prior:
\* the address the callers had last set for the name (-1: none), for
\* stab_clear the number of records the two indexes held; ops: the index
\* operations of a stab_set or stab_del that change a B+tree, in order
Call(op, name, value, max_len, put, prior, ret, out_name, out_value, calls, ops) ==
  [op |-> op, name |-> name, value |-> value, max_len |-> max_len, put |-> put,
   prior |-> prior, ret |-> ret, out_name |-> out_name, out_value |-> out_value,
   calls |-> calls, ops |-> ops]

\* the address the callers had last set for a name, -1 when none
Prior(t) == IF Stored(t) \in DOMAIN shadow THEN shadow[Stored(t)] ELSE -1

\* the table returned by a successful stab_new
Init ==
  /\ st = new_result({}, "ok").st
  /\ live = new_result({}, "ok").live
  /\ sym = {}
  /\ addr = {}
  /\ last = Call("new", <<>>, -1, -1, "ok", -1, 0, <<>>, -1, <<>>, <<>>)
  /\ nfail = 0
  /\ shadow = <<>>

\* stab_new, called while the callers hold no table
stab_new ==
  \E fail \in NewFails :
    \E r \in {new_result(live, fail)} :
        /\ st = "NULL"
        /\ st' = r.st
        /\ live' = r.live
        /\ sym' = {}
        /\ addr' = {}
        /\ last' = Call("new", <<>>, -1, -1, fail, -1,
                        IF r.st = "NULL" THEN -1 ELSE 0, <<>>, -1, <<>>, <<>>)
        /\ nfail' = 0
        /\ shadow' = <<>>

stab_destroy ==
  /\ st # "NULL"
  /\ st' = "NULL"
  /\ live' = destroy_result(live)
  /\ sym' = {}
  /\ addr' = {}
  /\ last' = Call("destroy", <<>>, -1, -1, "-", -1, 0, <<>>, -1, <<>>, <<>>)
  /\ nfail' = 0
  /\ shadow' = <<>>

stab_clear ==
  \E r \in {clear_result(sym, addr)} :
      /\ st # "NULL"
      /\ sym' = r.sym
      /\ addr' = r.addr
      /\ last' = Call("clear", <<>>, -1, -1, "-",
                      Cardinality(sym) + Cardinality(addr), 0, <<>>, -1, <<>>, <<>>)
      /\ nfail' = 0
      /\ shadow' = <<>>
      /\ UNCHANGED <<st, live>>

stab_set ==
  \E name \in Texts, value \in Addrs, put \in {"ok", "addr", "sym"} :
    \E r \in {set_result(sym, addr, name, value, put)} :
        /\ st # "NULL"
        /\ put # "ok" => nfail < MaxFail
        /\ sym' = r.sym
        /\ addr' = r.addr
        /\ last' = Call("set", name, value, -1, put, Prior(name), r.ret, <<>>, -1,
                        <<>>, r.ops)
        /\ nfail' = IF r.ret = 0 THEN nfail ELSE nfail + 1
        /\ shadow' = IF r.ret = 0
                       THEN [t \in (DOMAIN shadow) \cup {Stored(name)} |->
                               IF t = Stored(name) THEN value ELSE shadow[t]]
                       ELSE shadow
        /\ UNCHANGED <<st, live>>

stab_get ==
  \E name \in Texts :
    \E r \in {get_result(sym, name)} :
        /\ st # "NULL"
        /\ last' = Call("get", name, -1, -1, "-", -1, r.ret, <<>>, r.value, <<>>,
                        <<>>)
        /\ UNCHANGED <<st, live, sym, addr, nfail, shadow>>

stab_del ==
  \E name \in Texts :
    \E r \in {del_result(sym, addr, name)} :
        /\ st # "NULL"
        /\ sym' = r.sym
        /\ addr' = r.addr
        /\ last' = Call("del", name, -1, -1, "-", Prior(name), r.ret, <<>>, -1,
                        <<>>, r.ops)
        /\ shadow' = IF r.ret = 0
                       THEN [t \in (DOMAIN shadow) \ {Stored(name)} |-> shadow[t]]
                       ELSE shadow
        /\ UNCHANGED <<st, live, nfail>>

stab_nearest ==
  \E a \in Queries, max_len \in MaxLens :
    \E r \in {nearest_result(addr, a, max_len)} :
        /\ st # "NULL"
        /\ last' = Call("nearest", <<>>, a, max_len, "-", -1, r.ret, r.name,
                        r.offset, <<>>, <<>>)
        /\ UNCHANGED <<st, live, sym, addr, nfail, shadow>>

\* stab_enum that deletes the records it has visited
stab_enum_consuming ==
  \E failAt \in FailAts :
    \E r \in {enum_result(addr, failAt)} :
        /\ st # "NULL"
        /\ last' = Call("enum", <<>>, failAt, -1, "-", -1, r.ret, <<>>, -1, r.calls,
                        <<>>)
        /\ addr' = addr \ {r.calls[i] : i \in 1..Len(r.calls)}
        /\ UNCHANGED <<st, live, sym, nfail, shadow>>

stab_enum ==
  \E failAt \in FailAts :
    \E r \in {enum_result(addr, failAt)} :
        /\ st # "NULL"
        /\ last' = Call("enum", <<>>, failAt, -1, "-", -1, r.ret, <<>>, -1, r.calls,
                        <<>>)
        /\ UNCHANGED <<st, live, sym, addr, nfail, shadow>>

Next ==
  \/ stab_new
  \/ stab_destroy
  \/ stab_clear
  \/ stab_set
  \/ stab_get
  \/ stab_del
  \/ stab_nearest
  \/ stab_enum

Spec == Init /\ [][Next]_vars

\* ---- vocabulary of the properties ---------------------------------------

Min2(m, n) == IF m < n THEN m ELSE n

MaxOf(S) == CHOOSE x \in S : \A y \in S : y <= x

\* byte-lexical order on names: x sorts strictly before y
ByteLexLess(x, y) ==
  /\ x # y
  /\ \/ (Len(x) < Len(y) /\ SubSeq(y, 1, Len(x)) = x)
     \/ \E i \in 1..Min2(Len(x), Len(y)) :
          /\ x[i] < y[i]
          /\ \A j \in 1..(i - 1) : x[j] = y[j]

\* (address, then name) order on the entries of the Address Index
EntryLess(k1, k2) ==
  \/ k1.addr < k2.addr
  \/ (k1.addr = k2.addr /\ ByteLexLess(k1.name, k2.name))

\* a name as a buffer of max_len bytes holds it: its first max_len - 1 bytes
Cut(name, max_len) == SubSeq(name, 1, Min2(Len(name), max_len - 1))

\* the name a stab_nearest result carries is known to be a whole name: the
\* buffer holds every stored name, or the name did not fill the buffer
Whole(r, max_len) == max_len >= NameSize \/ Len(r.name) < max_len - 1

\* the names of the Name Index / the entries of the Address Index of a name
NamesOf(st_sym) == {e.key : e \in st_sym}

EntriesOf(st_addr, n) == {k \in st_addr : k.name = n}

\* no stab_set has returned -1 since the table was created or last cleared
NoFailedSet == nfail = 0

\* every name of the Name Index has its entry in the Address Index, and no
\* entry at another address
CrossIndex ==
  \A e \in sym :
    /\ [addr |-> e.data, name |-> e.key] \in addr
    /\ \A k \in EntriesOf(addr, e.key) : k.addr = e.data

\* ---- C1 -------------------------------------------------------------------

C2_RoundTrip ==
  /\ \A t \in Texts :
       LET g == get_result(sym, t)
       IN  IF Stored(t) \in DOMAIN shadow
             THEN g.ret = 0 /\ g.value = shadow[Stored(t)]
             ELSE g.ret = -1
  /\ (last.op = "set" /\ last.ret = 0) =>
       get_result(sym, last.name) = [ret |-> 0, value |-> last.value]
  /\ last.op = "get" =>
       IF Stored(last.name) \in DOMAIN shadow
         THEN last.ret = 0 /\ last.out_value = shadow[Stored(last.name)]
         ELSE last.ret = -1

\* a stab_get that finds a name while another one is stored at another
\* address and a stab_set has failed in between
C2_Witness ==
  /\ last.op = "get" /\ last.ret = 0
  /\ nfail > 0
  /\ \E t \in DOMAIN shadow : shadow[t] # last.out_value

\* ---- C3 -------------------------------------------------------------------

\* C3: when stab_set(n, a1) was the last successful stab_set of n (directly
\* before, or with other calls that leave n alone in between) and
\* stab_set(n, a2), a2 # a1, succeeds, then stab_get(n) returns a2, the Address
\* Index no longer holds (a1, n), and neither stab_nearest nor stab_enum
\* reports n at a1.
C3_Overwrite ==
  (last.op = "set" /\ last.ret = 0 /\ last.prior # -1 /\ last.prior # last.value)
    => LET n  == Stored(last.name)
           a1 == last.prior
           a2 == last.value
       IN  /\ get_result(sym, last.name) = [ret |-> 0, value |-> a2]
           /\ get_result(sym, n) = [ret |-> 0, value |-> a2]
           /\ [addr |-> a1, name |-> n] \notin addr
           /\ [addr |-> a2, name |-> n] \in addr
           /\ \A q \in Queries, ml \in MaxLens :
                LET r == nearest_result(addr, q, ml)
                IN  ~ (r.ret = 0 /\ Whole(r, ml) /\ r.name = n /\ q - r.offset = a1)
           /\ LET c == enum_result(addr, 0).calls
              IN  \A i \in 1..Len(c) : c[i] # [name |-> n, addr |-> a1]

\* a successful stab_set has just moved a name from the lowest address, where
\* another name stays, to the highest
C3_Witness ==
  /\ last.op = "set" /\ last.ret = 0
  /\ last.prior = 0 /\ last.value = MaxAddr
  /\ \E k \in addr : k.addr = 0 /\ k.name # Stored(last.name)

\* ---- C4 -------------------------------------------------------------------

\* the greatest stored address <= q (there is one)
Pred(q) == MaxOf({k.addr : k \in {e \in addr : e.addr <= q}})

\* C4: whenever some stored address is <= q, stab_nearest(q) succeeds and
\* returns a name stored at p, the greatest stored address <= q (as the
\* caller's buffer holds it: whole in a buffer of NameSize bytes), with
\* offset q - p; the offset is 0 exactly when q is a stored address.
C4_Predecessor ==
  /\ \A q \in Queries, ml \in MaxLens :
       (\E k \in addr : k.addr <= q) =>
         LET r == nearest_result(addr, q, ml)
             p == Pred(q)
         IN  /\ r.ret = 0
             /\ r.offset = q - p
             /\ \E k \in addr : k.addr = p /\ r.name = Cut(k.name, ml)
             /\ Whole(r, ml) => [addr |-> p, name |-> r.name] \in addr
             /\ r.offset = 0 <=> \E k \in addr : k.addr = q
  /\ (last.op = "nearest" /\ \E k \in addr : k.addr <= last.value) =>
       /\ last.ret = 0
       /\ last.out_value = last.value - Pred(last.value)
       /\ \E k \in addr : /\ k.addr = Pred(last.value)
                          /\ last.out_name = Cut(k.name, last.max_len)

\* a stab_nearest above two stored addresses, with a non-zero offset
C4_Witness ==
  /\ last.op = "nearest" /\ last.ret = 0
  /\ last.out_value > 0
  /\ last.max_len >= NameSize
  /\ \E k \in addr : k.addr < last.value - last.out_value

\* ---- C5 -------------------------------------------------------------------

\* C5: two different names may be stored at one address and both resolve by
\* stab_get; when several names are stored at the predecessor address,
\* stab_nearest returns the one that sorts last in byte-lexical order among
\* them, names of NameSize - 1 bytes included.
C5_AliasTieBreak ==
  /\ \A t, u \in DOMAIN shadow :
       (t # u /\ shadow[t] = shadow[u]) =>
         /\ get_result(sym, t) = [ret |-> 0, value |-> shadow[t]]
         /\ get_result(sym, u) = [ret |-> 0, value |-> shadow[t]]
  /\ \A q \in Queries, ml \in MaxLens :
       (\E k \in addr : k.addr <= q) =>
         LET r  == nearest_result(addr, q, ml)
             at == {k.name : k \in {e \in addr : e.addr = Pred(q)}}
         IN  \E m \in at :
               /\ \A x \in at : x = m \/ ByteLexLess(x, m)
               /\ r.ret = 0
               /\ r.name = Cut(m, ml)

\* stab_nearest has returned the name of NameSize - 1 bytes, stored at the
\* same address as another name
C5_Witness ==
  /\ last.op = "nearest" /\ last.ret = 0
  /\ Len(last.out_name) = NameSize - 1
  /\ Cardinality({k \in addr : k.addr = last.value - last.out_value}) >= 2
  /\ \A k \in addr : k.addr = last.value - last.out_value =>
       get_result(sym, k.name) = [ret |-> 0, value |-> k.addr]

\* ---- C6 -------------------------------------------------------------------

\* C6: stab_nearest(q) reports not-found if and only if the Address Index is
\* empty or q is below every stored address; otherwise it succeeds.
C6_NotFound ==
  /\ \A q \in Queries, ml \in MaxLens :
       LET r == nearest_result(addr, q, ml)
       IN  /\ r.ret \in {0, -1}
           /\ r.ret = -1 <=> (\A k \in addr : q < k.addr)
  /\ last.op = "nearest" =>
       (last.ret = -1 <=> (\A k \in addr : last.value < k.addr))

\* a stab_nearest below every address of a table that is not empty
C6_Witness ==
  /\ last.op = "nearest" /\ last.ret = -1
  /\ addr # {}

\* ---- C7 -------------------------------------------------------------------

\* what C7 says of a stab_del of a name of the Name Index
DeleteEffect ==
  LET n == Stored(last'.name)
  IN  /\ last'.ret = 0
      /\ n \notin NamesOf(sym')
      /\ \A e \in sym : e.key = n => [addr |-> e.data, name |-> n] \notin addr'
      /\ get_result(sym', last'.name).ret = -1
      /\ get_result(sym', n).ret = -1
      /\ \A q \in Queries, ml \in MaxLens :
           LET r == nearest_result(addr', q, ml)
           IN  /\ ~ (r.ret = 0 /\ Whole(r, ml) /\ r.name = n)
               /\ r.ret = 0 => \E k \in addr' : /\ k.name # n
                                                /\ k.addr = q - r.offset
                                                /\ r.name = Cut(k.name, ml)
      /\ LET c == enum_result(addr', 0).calls
         IN  \A i \in 1..Len(c) : c[i].name # n
      /\ sym' = {e \in sym : e.key # n}
      /\ {k \in addr' : k.name # n} = {k \in addr : k.name # n}

C8_EnumOrder ==
  /\ LET r == enum_result(addr, 0)
         c == r.calls
     IN  /\ r.ret = 0
         /\ Len(c) = Cardinality(addr)
         /\ {c[i] : i \in 1..Len(c)} = addr
         /\ \A i \in 1..(Len(c) - 1) : EntryLess(c[i], c[i + 1])
  /\ (last.op = "enum" /\ last.value = 0) =>
       /\ last.ret = 0
       /\ last.calls = enum_result(addr, 0).calls

\* a complete stab_enum of a table with three entries at two addresses (one
\* left by a failed stab_set), the name of NameSize - 1 bytes first
C8_Witness ==
  /\ last.op = "enum" /\ last.value = 0 /\ last.ret = 0
  /\ Len(last.calls) = 3
  /\ Len(last.calls[1].name) = NameSize - 1
  /\ last.calls[1].addr < last.calls[2].addr
  /\ last.calls[2].addr = last.calls[3].addr

\* ---- C9 -------------------------------------------------------------------

\* C9: stab_set of a name longer than NameSize - 1 bytes raises no truncation
\* error (it succeeds whenever both index inserts do) and stores the first
\* NameSize - 1 bytes of the name in both indexes; stab_get of the truncated
\* form returns the stored address; stab_nearest and stab_enum yield the
\* truncated form only, never the name as it was given.
C9_Truncation ==
  /\ \A t \in Texts, v \in Addrs :
       Len(t) > NameSize - 1 => set_result(sym, addr, t, v, "ok").ret = 0
  /\ \A e \in sym : Len(e.key) <= NameSize - 1
  /\ \A k \in addr : Len(k.name) <= NameSize - 1
  /\ \A q \in Queries, ml \in MaxLens :
       Len(nearest_result(addr, q, ml).name) <= NameSize - 1
  /\ LET c == enum_result(addr, 0).calls
     IN  \A i \in 1..Len(c) : Len(c[i].name) <= NameSize - 1
  /\ (last.op = "set" /\ last.ret = 0 /\ Len(last.name) > NameSize - 1) =>
       LET cut == SubSeq(last.name, 1, NameSize - 1)
       IN  /\ [key |-> cut, data |-> last.value] \in sym
           /\ [addr |-> last.value, name |-> cut] \in addr
           /\ get_result(sym, cut) = [ret |-> 0, value |-> last.value]
           /\ get_result(sym, last.name) = [ret |-> 0, value |-> last.value]
           /\ nearest_result(addr, last.value, NameSize) =
                [ret |-> 0, name |-> cut, offset |-> 0]
           /\ LET c == enum_result(addr, 0).calls
              IN  \E i \in 1..Len(c) : c[i] = [name |-> cut, addr |-> last.value]

\* a successful stab_set of the name of NameSize bytes, next to another name
C9_Witness ==
  /\ last.op = "set" /\ last.ret = 0
  /\ Len(last.name) = NameSize
  /\ Cardinality(sym) >= 2

\* ---- C10 ------------------------------------------------------------------

\* C10: stab_set returns success only if the insert of (address, name) in the
\* Address Index and the insert of name -> address in the Name Index both
\* succeeded; when either fails it returns failure.
C10_SetReportsFailure ==
  /\ last.op = "set" =>
       /\ last.ret \in {0, -1}
       /\ last.ret = 0 <=> last.put = "ok"
       /\ last.ret = 0 =>
            /\ [addr |-> last.value, name |-> Stored(last.name)] \in addr
            /\ [key |-> Stored(last.name), data |-> last.value] \in sym
  /\ \A t \in Texts, v \in Addrs, put \in {"addr", "sym"} :
       set_result(sym, addr, t, v, put).ret = -1

\* a stab_set whose Address Index insert succeeded and whose Name Index
\* insert failed: the new entry is in the Address Index, -1 is returned
C10_Witness ==
  /\ last.op = "set" /\ last.put = "sym" /\ last.ret = -1
  /\ [addr |-> last.value, name |-> Stored(last.name)] \in addr
  /\ [key |-> Stored(last.name), data |-> last.value] \notin sym

\* ---- C11 ------------------------------------------------------------------

\* a btree_delete made by the last call returned non-zero: it deleted nothing
DeleteFailed ==
  \E i \in 1..Len(last.ops) : last.ops[i].f = "delete" /\ last.ops[i].ret # 0

\* C11 as stated: when a btree_delete made by stab_set (of the old reverse
\* mapping) or by stab_del (on the Name Index or on the Address Index) fails,
\* that stab_set or stab_del call returns failure.
C11_AsStated ==
  (last.op \in {"set", "del"} /\ DeleteFailed) => last.ret = -1

\* ---- C12 ------------------------------------------------------------------

\* the table a successful stab_new returns: allocated, both indexes empty
NewTable ==
  [st |-> new_result({}, "ok").st, live |-> new_result({}, "ok").live,
   sym |-> {}, addr |-> {}]

\* C12: stab_clear leaves both indexes empty whatever they held: afterwards
\* stab_get of every name and stab_nearest of every address report not-found
\* and stab_enum never calls the visitor; the table stays allocated and is the
\* table a successful stab_new returns, so that every later stab_set and
\* stab_del (functions of the table alone) does what it does on a new table.
C12_Clear ==
  last.op = "clear" =>
    /\ sym = {}
    /\ addr = {}
    /\ \A t \in Texts : get_result(sym, t).ret = -1
    /\ \A q \in Queries, ml \in MaxLens : nearest_result(addr, q, ml).ret = -1
    /\ \A k \in FailAts : enum_result(addr, k) = [ret |-> 0, calls |-> <<>>]
    /\ [st |-> st, live |-> live, sym |-> sym, addr |-> addr] = NewTable
    /\ \A t \in Texts, v \in Addrs, put \in {"ok", "addr", "sym"} :
         set_result(sym, addr, t, v, put) =
           set_result(NewTable.sym, NewTable.addr, t, v, put)
    /\ \A t \in Texts :
         del_result(sym, addr, t) = del_result(NewTable.sym, NewTable.addr, t)

\* a stab_clear of a table that held two names in the Name Index and three
\* entries in the Address Index
C12_Witness ==
  /\ last.op = "clear"
  /\ last.prior = 5
  /\ st = "st"

\* ---- C13 ------------------------------------------------------------------

\* the entries of the Address Index that sort before k (address, then name)
Before(k) == {e \in addr : EntryLess(e, k)}

\* C13: when the visitor fails on its k-th call (the Address Index holds at
\* least k entries), stab_enum returns failure having called the visitor
\* exactly k times: on the first k entries in ascending (address, name)
\* order, the i-th call on the entry that has i - 1 entries before it, and on
\* no later entry.
C13_EarlyStop ==
  /\ \A k \in FailAts :
       (1 <= k /\ k <= Cardinality(addr)) =>
         LET r == enum_result(addr, k)
         IN  /\ r.ret = -1
             /\ Len(r.calls) = k
             /\ \A i \in 1..k :
                  /\ r.calls[i] \in addr
                  /\ Cardinality(Before(r.calls[i])) = i - 1
  /\ (last.op = "enum" /\ 1 <= last.value /\ last.value <= Cardinality(addr)) =>
       /\ last.ret = -1
       /\ Len(last.calls) = last.value
       /\ \A i \in 1..Len(last.calls) :
            /\ last.calls[i] \in addr
            /\ Cardinality(Before(last.calls[i])) = i - 1
  /\ (last.op = "enum" /\ last.ret = -1) =>
       (1 <= last.value /\ last.value <= Cardinality(addr))

\* a stab_enum stopped by the visitor on its second call, at least one entry
\* left unvisited
C13_Witness ==
  /\ last.op = "enum" /\ last.ret = -1
  /\ Len(last.calls) >= 2
  /\ Cardinality(addr) > Len(last.calls)

\* ---- C14 ------------------------------------------------------------------

\* C14: the operations by which a stab_set changes the indexes come in this
\* order: (1) the btree_delete of the stale entry (a_old, name) on the Address
\* Index, made exactly when the name was in the Name Index; (2) the btree_put
\* of (address, name) on the Address Index; (3) the btree_put of name ->
\* address on the Name Index, never made before (2) and not made when (2)
\* fails.
C14_SetOrder ==
  last.op = "set" =>
    LET o == last.ops
        d == IF last.prior # -1 THEN 1 ELSE 0
    IN  /\ Len(o) > d
        /\ \A i \in 1..d : o[i].f = "delete" /\ o[i].on = "addr"
        /\ o[d + 1].f = "put" /\ o[d + 1].on = "addr"
        /\ IF o[d + 1].ret < 0
             THEN Len(o) = d + 1 /\ last.ret = -1
             ELSE Len(o) = d + 2 /\ o[d + 2].f = "put" /\ o[d + 2].on = "sym"
        /\ \A i, j \in 1..Len(o) :
             (o[i].on = "addr" /\ o[i].f = "put" /\ o[j].on = "sym") => i < j
        /\ (last.prior # -1 /\ (last.prior # last.value \/ o[d + 1].ret < 0)) =>
             [addr |-> last.prior, name |-> Stored(last.name)] \notin addr

\* a stab_set of a name that was in the Name Index, whose btree_put on the
\* Address Index failed: the stale entry was deleted, the Name Index was not
\* written
C14_Witness ==
  /\ last.op = "set" /\ last.put = "addr"
  /\ last.prior # -1
  /\ Len(last.ops) = 2
  /\ last.ops[1] = Op("delete", "addr", 0)
  /\ last.ops[2] = Op("put", "addr", -1)

\* ---- C15 ------------------------------------------------------------------

\* what C15 says of a stab_set(name, address) one of whose btree_put calls
\* fails: it returns failure; the Name Index is as it was (the name still at
\* a_old, or absent); of the entries of the name in the Address Index the
\* stale one (a_old, name) stays deleted and, when the failing btree_put is
\* the one on the Name Index, (address, name) stays inserted; the entries of
\* the other symbols are unchanged
FailedSetEffect ==
  LET n     == Stored(last'.name)
      stale == {[addr |-> e.data, name |-> n] : e \in {f \in sym : f.key = n}}
      new   == [addr |-> last'.value, name |-> n]
  IN  /\ last'.ret = -1
      /\ sym' = sym
      /\ last'.put = "addr" => EntriesOf(addr', n) = EntriesOf(addr, n) \ stale
      /\ last'.put = "sym" =>
           EntriesOf(addr', n) = (EntriesOf(addr, n) \ stale) \cup {new}
      /\ {k \in addr' : k.name # n} = {k \in addr : k.name # n}

\* C15: a stab_set that fails after it has changed an index (stale entry
\* deleted, new Address Index entry inserted) returns failure and undoes
\* nothing: the Name Index still maps the name to a_old (or does not hold
\* it), the Address Index holds (address, name) or no entry of the name at
\* a_old, and no other symbol's entries are changed.
C15_NoRollback ==
  [][ (last'.op = "set" /\ last'.put # "ok") => FailedSetEffect ]_vars

\* a failed stab_set has left a name at a_old in the Name Index and at the new
\* address only in the Address Index, next to another symbol
C15_Witness ==
  /\ last.op = "set" /\ last.ret = -1 /\ last.put = "sym"
  /\ last.prior # -1 /\ last.prior # last.value
  /\ [key |-> Stored(last.name), data |-> last.prior] \in sym
  /\ EntriesOf(addr, Stored(last.name)) =
       {[addr |-> last.value, name |-> Stored(last.name)]}
  /\ \E e \in sym : e.key # Stored(last.name)

\* ---- C16 ------------------------------------------------------------------

\* C16: a stab_new in which the allocation of the table object, of the Name
\* Index or of the Address Index fails returns no table, and everything that
\* call had allocated before is released: no allocation is live.  After a
\* successful stab_new exactly the table object and the two indexes are live,
\* and they stay so until stab_destroy, which releases all three.
C16_CreateDestroy ==
  /\ last.op = "new" =>
       IF last.put = "ok"
         THEN /\ last.ret = 0
              /\ st # "NULL"
              /\ live = {"st", "sym", "addr"}
              /\ Cardinality(live) = 3
         ELSE /\ last.ret = -1
              /\ st = "NULL"
              /\ live = {}
  /\ last.op = "destroy" => (st = "NULL" /\ live = {})
  /\ st # "NULL" => live = Objects
  /\ st = "NULL" => live = {}
  /\ \A fail \in NewFails \ {"ok"} :
       new_result({}, fail) = [st |-> "NULL", live |-> {}]

\* a stab_new that failed on the allocation of the Address Index, after the
\* table object and the Name Index were allocated
C16_Witness ==
  /\ last.op = "new" /\ last.put = "addr"
  /\ last.ret = -1
  /\ live = {}

\* ---- C17 ------------------------------------------------------------------

\* C17: stab_del of a name that is not in the Name Index returns not-found,
\* makes no index operation and leaves the Name Index and the Address Index
\* as they were, whatever entries the Address Index holds.
C17_DeleteAbsent ==
  /\ \A t \in Texts :
       Stored(t) \notin NamesOf(sym) =>
         del_result(sym, addr, t) =
           [sym |-> sym, addr |-> addr, ret |-> -1, ops |-> <<>>]
  /\ (last.op = "del" /\ last.prior = -1) =>
       /\ last.ret = -1
       /\ last.ops = <<>>
       /\ Stored(last.name) \notin NamesOf(sym)
  /\ (last.op = "del" /\ last.ret = -1) => last.prior = -1

\* a stab_del that has reported not-found while the Address Index holds an
\* entry of another name and an entry of the name itself (left by a failed
\* stab_set)
C17_Witness ==
  /\ last.op = "del" /\ last.ret = -1
  /\ \E k \in addr : k.name # Stored(last.name)
  /\ \E k \in addr : k.name = Stored(last.name)
  /\ sym # {}

\* ---- C18 ------------------------------------------------------------------

\* C18: as long as every index operation of the stab_set, stab_del and
\* stab_clear calls has succeeded (no btree_put has failed since the table
\* was created or last cleared; no btree_delete fails then either), every
\* entry (a, n) of the Address Index has n in the Name Index with address a,
\* and the two indexes hold the same number of entries.
C18_NoOrphans ==
  NoFailedSet =>
    /\ \A k \in addr : [key |-> k.name, data |-> k.addr] \in sym
    /\ Cardinality(addr) = Cardinality(sym)
    /\ ~ DeleteFailed
    /\ \A i \in 1..Len(last.ops) : last.ops[i].ret >= 0

\* a successful stab_del, no call having failed, has left one symbol in each
\* index where there were two at one address
C18_Witness ==
  /\ NoFailedSet
  /\ last.op = "del" /\ last.ret = 0
  /\ last.ops = <<Op("delete", "sym", 0), Op("delete", "addr", 0)>>
  /\ Cardinality(addr) = 1
  /\ \E k \in addr : k.addr = last.prior

\* ---- C19 ------------------------------------------------------------------

\* what C19 says of stab_set(n2, a2) called right after a successful
\* stab_set(n1, a1), n1 and n2 different names with the same first
\* NameSize - 1 bytes p: it overwrites the symbol (one record of p in the
\* Name Index, at a2; the entry (a1, p) gone from the Address Index, (a2, p)
\* there), stab_get(n1) then returns a2, and stab_del(n2) then removes p
\* from both indexes.  counted: whether the Address Index is said to hold
\* exactly one entry of p after the stab_set and none after the stab_del.
AliasScenario(counted) ==
  (last.op = "set" /\ last.ret = 0) =>
    \A n2 \in Texts, a2 \in Addrs :
      (n2 # last.name /\ Stored(n2) = Stored(last.name)) =>
        LET p == Stored(n2)
            r == set_result(sym, addr, n2, a2, "ok")
            d == del_result(r.sym, r.addr, n2)
        IN  /\ r.ret = 0
            /\ {e \in r.sym : e.key = p} = {[key |-> p, data |-> a2]}
            /\ Cardinality(r.sym) = Cardinality(sym)
            /\ get_result(r.sym, last.name) = [ret |-> 0, value |-> a2]
            /\ get_result(r.sym, n2) = [ret |-> 0, value |-> a2]
            /\ a2 # last.value => [addr |-> last.value, name |-> p] \notin r.addr
            /\ [addr |-> a2, name |-> p] \in r.addr
            /\ counted => EntriesOf(r.addr, p) = {[addr |-> a2, name |-> p]}
            /\ d.ret = 0
            /\ p \notin NamesOf(d.sym)
            /\ get_result(d.sym, last.name).ret = -1
            /\ [addr |-> a2, name |-> p] \notin d.addr
            /\ counted => EntriesOf(d.addr, p) = {}

C20_ReadOnly ==
  [][ last'.op \in {"get", "nearest", "enum"} => (sym' = sym /\ addr' = addr)
    ]_vars

\* a stab_enum stopped by its visitor, after a failed stab_set, on a table
\* that holds records in both indexes
C20_Witness ==
  /\ last.op = "enum" /\ last.ret = -1
  /\ nfail > 0
  /\ sym # {}
  /\ Cardinality(addr) >= 2

====
